---- MODULE Spec2Model ----
(***************************************************************************)
(* Verification model of graphicslab: the mesh loader and its render-thread *)
(* caller, the framebuffer stack, and the hot-reloading shader.             *)
(***************************************************************************)
EXTENDS Integers, Sequences, FiniteSets, TLC

\* ------------------------------------------------------------------ bounds
\* Number of MeshLoader.load threads started in one run.
MaxLoads == 2
\* Number of framebuffer objects the viewport allocates (1 + resizes).
MaxFbo == 2
\* Depth of the framebuffer stack explored by the stand-alone stack model.
MaxDepth == 4
\* Largest file modification time.
MaxTime == 2
\* Number of GPU program objects created in one run.
MaxPrograms == 3
\* Number of Viewport.render calls in one run of the viewport model.
MaxFrames == 2
\* Number of triangles of the meshes whose wire edges are built.
MaxTriangles == 2

\* ------------------------------------------------------------------ state
VARIABLES
    \* MeshLoader (lib/mesh_loader.py): flags, lock owner (0 = free) and the
    \* published fields, each holding the number of the load that wrote it
    \* (0 = never written).
    loading, loaded, mesh_loading_lock,
    mesh, vertex_arr, normal_arr, index_arr, vertex_buf, normal_buf, index_buf,
    \* load threads and their worker processes
    n_loads, load_pc, load_result, proc, pipe,
    \* render thread: position in MeshViewerWindow.render and the file dialog
    frame_pc, mesh_file_dialog,
    \* Viewport (mesh_viewer/viewport.py)
    vbo_list, mesh_ibo, wire_ibo, mesh_program, mesh_vao, wire_vao, fbo,
    \* FBOStack (fbo_stack.py): the stack and the framebuffer last use()'d
    stack, active,
    \* Shader (lib/shader.py) and the two files behind it
    vert_file, frag_file, mesh_shader, n_programs,
    \* bookkeeping of the verification: what was active and stacked before each
    \* unmatched push, the last stack operation, counts of true polls and of
    \* publications, the last shader operation and its outcome, which
    \* operation installed the current program, and the kind and installer of
    \* the program it replaced
    saved, fbo_op, n_true_polls, n_published,
    shader_op, shader_ret, installed_by, prev_install,
    \* Viewport: the wire frame switch, and what the last Viewport.render did:
    \* its calls on the GL context in order, and the uniforms it wrote
    \* and the number of frames it has rendered
    draw_wire_frame, gl_calls, uniform_writes, n_frames,
    \* the triangle index array handed to Viewport.load_mesh, the wire edge
    \* array it derives from it, and whether it has done so
    tri_arr, wire_arr, wire_op,
    \* the status table of the StatusState, the dictionary the StatusObserver
    \* owns, the object the observer's _value refers to ("table" or "copy"),
    \* and the position inside update_status / finish_status
    status_table, observer_copy, observer_value, status_pc,
    \* App.windows (keys in insertion order), the menu flags of the Dockspace,
    \* App.windows_remove_queue and the position inside App.on_render
    windows, show, windows_remove_queue, app_pc,
    \* the values held by the SettingsField objects made at class definition,
    \* what the fields of SettingsWindow.unsaved_settings and of
    \* SettingsState.value refer to ("default": those objects, "own": objects
    \* of their own) with the values of their own objects, the unsave flag
    \* and the last operation of the settings window
    default_fields, unsaved_ref, unsaved_own, state_ref, state_own, unsave,
    settings_op,
    \* MeshViewerWindow.cam_states and the Viewport fields computed from it:
    \* the two matrices, the size, the aspect ratio and the size the render
    \* target was allocated with; cam_op is the last camera operation
    cam_states, view_mat, perspective_mat, size, aspect, target_size, cam_op,
    \* the render textures registered with the UI renderer, each named by the
    \* number of the framebuffer it is attached to
    registered

loaderVars == <<loading, loaded, mesh_loading_lock, mesh, vertex_arr, normal_arr,
                index_arr, vertex_buf, normal_buf, index_buf>>
bufferVars == <<mesh, vertex_arr, normal_arr, index_arr, vertex_buf, normal_buf,
                index_buf>>
threadVars == <<n_loads, load_pc, load_result, proc, pipe>>
windowVars == <<frame_pc, mesh_file_dialog>>
meshGpuVars == <<vbo_list, mesh_ibo, wire_ibo>>
vaoVars == <<mesh_program, mesh_vao, wire_vao>>
fboVars == <<stack, active, saved, fbo_op>>
shaderVars == <<vert_file, frag_file, mesh_shader, n_programs, shader_op,
                shader_ret, installed_by, prev_install>>
countVars == <<n_true_polls, n_published>>
statusVars == <<status_table, observer_copy, observer_value, status_pc>>
appVars == <<windows, show, windows_remove_queue, app_pc>>
settingsVars == <<default_fields, unsaved_ref, unsaved_own, state_ref, state_own,
                  unsave, settings_op>>
drawVars == <<draw_wire_frame, gl_calls, uniform_writes, n_frames, tri_arr,
              wire_arr, wire_op, statusVars, appVars, settingsVars>>
cameraVars == <<cam_states, view_mat, perspective_mat, size, aspect, target_size,
                cam_op, registered>>

vars == <<loaderVars, threadVars, windowVars, meshGpuVars, vaoVars, fbo,
          fboVars, shaderVars, countVars, drawVars, cameraVars>>

\* ------------------------------------------------------------------ values
Loads == 1..MaxLoads
\* The window framebuffer pushed by App.__init__; viewport framebuffers are 1..MaxFbo.
WndFbo == 0
Fbos == 0..MaxFbo
\* What trimesh.load can deliver inside the worker.
ParseResults == {"Trimesh", "Scene", "raise"}
\* Shader source texts; "bad" does not compile.
Texts == {"a", "bad"}
\* A path is a readable regular file, a regular file that cannot be read, a
\* directory, or absent.
FileStatus == {"ok", "unreadable", "dir", "missing"}

Last(s) == s[Len(s)]
Front(s) == SubSeq(s, 1, Len(s) - 1)

\* ------------------------------------------------------------------ programs
\* ctx.program(vertex_shader=v, fragment_shader=f) raises unless both compile.
Compiles(v, f) == v # "bad" /\ f # "bad"

\* Variant of ctx.program that hands out one cached program per source text.
UserProgram_CachedByText(id, v, f) == [id |-> 1, kind |-> "user", vert |-> v, frag |-> f]

\* ctx.program(...) returns a new program object each time it is called;
\* `id` stands for the identity of the object.
UserProgram(id, v, f) == [id |-> id, kind |-> "user", vert |-> v, frag |-> f]
ErrorProgram(id) ==
    [id |-> id, kind |-> "error", vert |-> "error_vert_src", frag |-> "error_frag_src"]
\* The wire frame program built once in Viewport.__init__.
wire_program == [id |-> 0, kind |-> "wire", vert |-> "wire_vert_src", frag |-> "wire_frag_src"]

\* `name in program`: the attributes a linked program declares.
ProgramAttrs(p) ==
    CASE p.kind = "wire" -> {"in_vert"}
      [] p.kind = "error" -> {"in_vert"}
      [] p.vert = "a" -> {"in_vert", "in_norm"}
      [] OTHER -> {"in_vert"}

\* Variant of the filter that binds every entry of the list.
FilterContent_Unfiltered(list, p) == list

RECURSIVE FilterContent(_, _)
FilterContent(list, p) ==
    IF list = <<>> THEN <<>>
    ELSE LET rest == FilterContent(Tail(list), p)
         IN IF Head(list)[3] \in ProgramAttrs(p) THEN <<Head(list)>> \o rest ELSE rest

\* Variant of assemble_vao that builds the mesh vertex array without an
\* index buffer, as it is before the first mesh.
MeshVao_NoIndexBuffer(prog, list, ibo) ==
    [program |-> prog, content |-> FilterContent(list, prog), index_buffer |-> 0]

\* Viewport.assemble_vao as a function of the fields it reads.
MeshVao(prog, list, ibo) ==
    [program |-> prog, content |-> FilterContent(list, prog), index_buffer |-> ibo]
WireVao(list, ibo) ==
    [program |-> wire_program, content |-> FilterContent(list, wire_program),
     index_buffer |-> ibo]

\* ------------------------------------------------------------------ FBOStack
\* Variant of pop that forgets to use() the new top.
ActiveAfterPop_NoUse(s, a) == a

\* FBOStack.pop, lines 18-19: the new top is use()'d when the stack is not empty.
ActiveAfterPop(s, a) == IF Len(s) > 0 THEN Last(s) ELSE a

FBOPush(f) ==
    /\ stack' = Append(stack, f)
    /\ active' = f
    /\ saved' = Append(saved, [active |-> active, stack |-> stack])
    /\ fbo_op' = "push"

FBOPop ==
    /\ Len(stack) > 0
    /\ stack' = Front(stack)
    /\ active' = ActiveAfterPop(Front(stack), active)
    /\ saved' = Front(saved)
    /\ fbo_op' = "pop"

\* ------------------------------------------------------------------ MeshLoader
\* Variant of the type test that accepts every value but None.
IsTrimesh_NotNone(m) == m # "None"

\* MeshLoader.load line 55: type(mesh) is trimesh.Trimesh.
IsTrimesh(m) == m = "Trimesh"

\* Load threads that have been started and have not returned.
InFlight == {i \in Loads : load_pc[i] \notin {"unstarted", "done"}}

\* MeshLoader.load, lines 43-44.
LoadSetLoading(i) ==
    /\ load_pc[i] = "set_loading"
    /\ mesh_loading_lock = 0
    /\ loading' = TRUE
    /\ load_pc' = [load_pc EXCEPT ![i] = "spawn"]
    /\ UNCHANGED <<loaded, mesh_loading_lock, bufferVars, n_loads, load_result,
                   proc, pipe, windowVars, meshGpuVars, vaoVars, fbo, fboVars,
                   shaderVars, countVars>>
    /\ UNCHANGED <<drawVars, cameraVars>>

\* MeshLoader.load, lines 46-50: the pipe and the worker process.
LoadSpawn(i) ==
    /\ load_pc[i] = "spawn"
    /\ proc' = [proc EXCEPT ![i] = "running"]
    /\ load_pc' = [load_pc EXCEPT ![i] = "recv"]
    /\ UNCHANGED <<loaderVars, n_loads, load_result, pipe, windowVars,
                   meshGpuVars, vaoVars, fbo, fboVars, shaderVars, countVars>>
    /\ UNCHANGED <<drawVars, cameraVars>>

\* Variant of load_proc that also creates the index buffer of the mesh on
\* the GPU from the worker process.
LoadProc_CreatesBuffer(i) ==
    /\ proc[i] = "running"
    /\ \E r \in ParseResults :
          pipe' = [pipe EXCEPT ![i] = IF r = "raise" THEN "None" ELSE r]
    /\ proc' = [proc EXCEPT ![i] = "exited"]
    /\ mesh_ibo' = i
    /\ UNCHANGED <<loaderVars, n_loads, load_pc, load_result, windowVars,
                   vbo_list, wire_ibo, vaoVars, fbo, fboVars, shaderVars,
                   countVars>>
    /\ UNCHANGED <<drawVars, cameraVars>>

\* load_proc: the parse result is sent, or None when the parser raised.
LoadProc(i) ==
    /\ proc[i] = "running"
    /\ \E r \in ParseResults :
          pipe' = [pipe EXCEPT ![i] = IF r = "raise" THEN "None" ELSE r]
    /\ proc' = [proc EXCEPT ![i] = "exited"]
    /\ UNCHANGED <<loaderVars, n_loads, load_pc, load_result, windowVars,
                   meshGpuVars, vaoVars, fbo, fboVars, shaderVars, countVars>>
    /\ UNCHANGED <<drawVars, cameraVars>>

\* The worker process dies inside trimesh.load (segfault, abort, kill): no
\* Python code of load_proc runs after it, so nothing is sent.
LoadProcCrash(i) ==
    /\ proc[i] = "running"
    /\ proc' = [proc EXCEPT ![i] = "crashed"]
    /\ UNCHANGED <<loaderVars, n_loads, load_pc, load_result, pipe, windowVars,
                   meshGpuVars, vaoVars, fbo, fboVars, shaderVars, countVars>>
    /\ UNCHANGED <<drawVars, cameraVars>>

\* MeshLoader.load, lines 51-63 and the branch of lines 55/73/76: recv blocks
\* until a message is in the pipe.
LoadRecv(i) ==
    /\ load_pc[i] = "recv"
    /\ pipe[i] # "empty"
    /\ load_result' = [load_result EXCEPT ![i] = pipe[i]]
    /\ pipe' = [pipe EXCEPT ![i] = "empty"]
    /\ load_pc' = [load_pc EXCEPT ![i] =
                      IF IsTrimesh(pipe[i]) THEN "pub_mesh" ELSE "clear"]
    /\ UNCHANGED <<loaderVars, n_loads, proc, windowVars, meshGpuVars, vaoVars,
                   fbo, fboVars, shaderVars, countVars>>
    /\ UNCHANGED <<drawVars, cameraVars>>

\* MeshLoader.load, lines 64-72: the assignments made while holding the lock,
\* one step each (load_mesh reads the fields without the lock).
LoadPublish(i) ==
    /\ \/ /\ load_pc[i] = "pub_mesh"
          /\ mesh_loading_lock = 0
          /\ mesh_loading_lock' = i
          /\ mesh' = i
          /\ load_pc' = [load_pc EXCEPT ![i] = "pub_vertex_arr"]
          /\ UNCHANGED <<vertex_arr, normal_arr, index_arr, vertex_buf,
                         normal_buf, index_buf, loaded, n_published>>
       \/ /\ load_pc[i] = "pub_vertex_arr"
          /\ vertex_arr' = i
          /\ load_pc' = [load_pc EXCEPT ![i] = "pub_normal_arr"]
          /\ UNCHANGED <<mesh, normal_arr, index_arr, vertex_buf, normal_buf,
                         index_buf, loaded, mesh_loading_lock, n_published>>
       \/ /\ load_pc[i] = "pub_normal_arr"
          /\ normal_arr' = i
          /\ load_pc' = [load_pc EXCEPT ![i] = "pub_index_arr"]
          /\ UNCHANGED <<mesh, vertex_arr, index_arr, vertex_buf, normal_buf,
                         index_buf, loaded, mesh_loading_lock, n_published>>
       \/ /\ load_pc[i] = "pub_index_arr"
          /\ index_arr' = i
          /\ load_pc' = [load_pc EXCEPT ![i] = "pub_vertex_buf"]
          /\ UNCHANGED <<mesh, vertex_arr, normal_arr, vertex_buf, normal_buf,
                         index_buf, loaded, mesh_loading_lock, n_published>>
       \/ /\ load_pc[i] = "pub_vertex_buf"
          /\ vertex_buf' = i
          /\ load_pc' = [load_pc EXCEPT ![i] = "pub_normal_buf"]
          /\ UNCHANGED <<mesh, vertex_arr, normal_arr, index_arr, normal_buf,
                         index_buf, loaded, mesh_loading_lock, n_published>>
       \/ /\ load_pc[i] = "pub_normal_buf"
          /\ normal_buf' = i
          /\ load_pc' = [load_pc EXCEPT ![i] = "pub_index_buf"]
          /\ UNCHANGED <<mesh, vertex_arr, normal_arr, index_arr, vertex_buf,
                         index_buf, loaded, mesh_loading_lock, n_published>>
       \/ /\ load_pc[i] = "pub_index_buf"
          /\ index_buf' = i
          /\ load_pc' = [load_pc EXCEPT ![i] = "pub_loaded"]
          /\ UNCHANGED <<mesh, vertex_arr, normal_arr, index_arr, vertex_buf,
                         normal_buf, loaded, mesh_loading_lock, n_published>>
       \/ /\ load_pc[i] = "pub_loaded"
          /\ loaded' = TRUE
          /\ mesh_loading_lock' = 0
          /\ n_published' = n_published + 1
          /\ load_pc' = [load_pc EXCEPT ![i] = "clear"]
          /\ UNCHANGED bufferVars
    /\ UNCHANGED <<loading, n_loads, load_result, proc, pipe, windowVars,
                   meshGpuVars, vaoVars, fbo, fboVars, shaderVars, n_true_polls>>
    /\ UNCHANGED <<drawVars, cameraVars>>

\* MeshLoader.load, lines 79-80.
LoadClear(i) ==
    /\ load_pc[i] = "clear"
    /\ mesh_loading_lock = 0
    /\ loading' = FALSE
    /\ load_pc' = [load_pc EXCEPT ![i] = "done"]
    /\ UNCHANGED <<loaded, mesh_loading_lock, bufferVars, n_loads, load_result,
                   proc, pipe, windowVars, meshGpuVars, vaoVars, fbo, fboVars,
                   shaderVars, countVars>>
    /\ UNCHANGED <<drawVars, cameraVars>>

\* ------------------------------------------------------------------ status table
\* Keys and values handed to update_status / finish_status.
StatusKeys == {"Mesh Viewer", "Export"}
StatusValues == {"Working", "Loading Mesh", "Half"}

\* status_table[key] = status: the table as a set of <<key, status>> pairs.
StoreStatus(table, key, status) ==
    {e \in table : e[1] # key} \cup {<<key, status>>}

\* if key in status_table: del status_table[key]
DeleteStatus(table, key) == {e \in table : e[1] # key}

\* Variant of the copy that hands back the object it was given.
DeepCopy_SameObject(obj) == obj

\* copy.deepcopy(new_state): a dictionary object of the observer's own.
DeepCopy(obj) == "copy"

\* StatusObserver.value: the dictionary _value refers to.
ObserverValue == IF observer_value = "table" THEN status_table ELSE observer_copy

\* StatusState.update_status line 16.
UpdateStatusStore ==
    /\ status_pc = "idle"
    /\ \E key \in StatusKeys, status \in StatusValues :
          status_table' = StoreStatus(status_table, key, status)
    /\ status_pc' = "notify"
    /\ UNCHANGED <<loaderVars, threadVars, windowVars, meshGpuVars, vaoVars, fbo,
                   fboVars, shaderVars, countVars, draw_wire_frame, gl_calls,
                   uniform_writes, n_frames, tri_arr, wire_arr, wire_op,
                   observer_copy, observer_value, appVars, settingsVars, cameraVars>>

\* StatusState.finish_status lines 20-21.
FinishStatusDelete ==
    /\ status_pc = "idle"
    /\ \E key \in StatusKeys : status_table' = DeleteStatus(status_table, key)
    /\ status_pc' = "notify"
    /\ UNCHANGED <<loaderVars, threadVars, windowVars, meshGpuVars, vaoVars, fbo,
                   fboVars, shaderVars, countVars, draw_wire_frame, gl_calls,
                   uniform_writes, n_frames, tri_arr, wire_arr, wire_op,
                   observer_copy, observer_value, appVars, settingsVars, cameraVars>>

\* self.notify(self.status_table) -> StatusObserver.update.
StatusNotify ==
    /\ status_pc = "notify"
    /\ observer_value' = DeepCopy("table")
    /\ observer_copy' = status_table
    /\ status_pc' = "idle"
    /\ UNCHANGED <<loaderVars, threadVars, windowVars, meshGpuVars, vaoVars, fbo,
                   fboVars, shaderVars, countVars, draw_wire_frame, gl_calls,
                   uniform_writes, n_frames, tri_arr, wire_arr, wire_op,
                   status_table, appVars, settingsVars, cameraVars>>

\* ------------------------------------------------------------------ render thread
\* MeshViewerWindow.render line 350 -> Viewport.load_mesh lines 104-106:
\* is_loaded() under the lock, then vbo_list = [].
PollMesh ==
    /\ frame_pc = "poll"
    /\ mesh_loading_lock = 0
    /\ IF loaded
         THEN /\ loaded' = FALSE
              /\ n_true_polls' = n_true_polls + 1
              /\ vbo_list' = <<>>
              /\ frame_pc' = "rd_vertex_buf"
         ELSE /\ frame_pc' = "menu"
              /\ UNCHANGED <<loaded, n_true_polls, vbo_list>>
    /\ UNCHANGED <<loading, mesh_loading_lock, bufferVars, threadVars,
                   mesh_file_dialog, mesh_ibo, wire_ibo, vaoVars, fbo, fboVars,
                   shaderVars, n_published>>
    /\ UNCHANGED <<drawVars, cameraVars>>

\* Viewport.load_mesh lines 107-113.
ReadVertexBuf ==
    /\ frame_pc = "rd_vertex_buf"
    /\ vbo_list' = Append(vbo_list, <<vertex_buf, "3f", "in_vert">>)
    /\ frame_pc' = "rd_normal_buf"
    /\ UNCHANGED <<loaderVars, threadVars, mesh_file_dialog, mesh_ibo, wire_ibo,
                   vaoVars, fbo, fboVars, shaderVars, countVars>>
    /\ UNCHANGED <<drawVars, cameraVars>>

\* Viewport.load_mesh lines 114-120.
ReadNormalBuf ==
    /\ frame_pc = "rd_normal_buf"
    /\ vbo_list' = Append(vbo_list, <<normal_buf, "3f", "in_norm">>)
    /\ frame_pc' = "rd_index_buf"
    /\ UNCHANGED <<loaderVars, threadVars, mesh_file_dialog, mesh_ibo, wire_ibo,
                   vaoVars, fbo, fboVars, shaderVars, countVars>>
    /\ UNCHANGED <<drawVars, cameraVars>>

\* Viewport.load_mesh line 121.
ReadIndexBuf ==
    /\ frame_pc = "rd_index_buf"
    /\ mesh_ibo' = index_buf
    /\ frame_pc' = "rd_index_arr"
    /\ UNCHANGED <<loaderVars, threadVars, mesh_file_dialog, vbo_list, wire_ibo,
                   vaoVars, fbo, fboVars, shaderVars, countVars>>
    /\ UNCHANGED <<drawVars, cameraVars>>

\* Viewport.load_mesh lines 122-134: the wire edge buffer is derived from
\* index_arr, then assemble_vao rebuilds both vertex arrays; load_mesh has
\* returned True and MeshViewerWindow.render line 351 finishes the status.
ReadIndexArr ==
    /\ frame_pc = "rd_index_arr"
    /\ wire_ibo' = index_arr
    /\ mesh_vao' = MeshVao(mesh_program, vbo_list, mesh_ibo)
    /\ wire_vao' = WireVao(vbo_list, index_arr)
    /\ frame_pc' = "menu"
    /\ status_table' = DeleteStatus(status_table, "Mesh Viewer")
    /\ observer_value' = DeepCopy("table")
    /\ observer_copy' = status_table'
    /\ UNCHANGED <<loaderVars, threadVars, mesh_file_dialog, vbo_list, mesh_ibo,
                   mesh_program, fbo, fboVars, shaderVars, countVars>>
    /\ UNCHANGED <<draw_wire_frame, gl_calls, uniform_writes, n_frames, tri_arr,
                   wire_arr, wire_op, status_pc, appVars, settingsVars, cameraVars>>

\* MeshViewerWindow.render lines 381-387: the item is enabled when
\* is_loading() is false; a click opens the dialog when none is open.
MenuLoadMesh ==
    /\ frame_pc = "menu"
    /\ mesh_loading_lock = 0
    /\ \E click \in BOOLEAN :
          LET clicked == click /\ ~loading
          IN mesh_file_dialog' =
                IF clicked /\ mesh_file_dialog = "None" THEN "open"
                ELSE mesh_file_dialog
    /\ frame_pc' = "dialog"
    /\ UNCHANGED <<loaderVars, threadVars, meshGpuVars, vaoVars, fbo, fboVars,
                   shaderVars, countVars>>
    /\ UNCHANGED <<drawVars, cameraVars>>

\* A finished file dialog, by the number of paths in its result().
DialogWith(n) == CASE n = 0 -> "ready0" [] n = 1 -> "ready1" [] OTHER -> "ready2"

\* The user closes the file dialog with 0, 1 or 2 paths selected.
DialogReady ==
    /\ mesh_file_dialog = "open"
    /\ \E n \in 0..2 :
          /\ n = 1 => n_loads < MaxLoads
          /\ mesh_file_dialog' = DialogWith(n)
    /\ UNCHANGED <<loaderVars, threadVars, frame_pc, meshGpuVars, vaoVars, fbo,
                   fboVars, shaderVars, countVars>>
    /\ UNCHANGED <<drawVars, cameraVars>>

\* MeshViewerWindow.render lines 388-404: one selected path publishes the
\* "Mesh Viewer" status and starts a load thread.
DialogResult ==
    /\ frame_pc = "dialog"
    /\ IF mesh_file_dialog \notin {"None", "open"}
         THEN /\ mesh_file_dialog' = "None"
              /\ IF mesh_file_dialog = DialogWith(1)
                   THEN /\ n_loads' = n_loads + 1
                        /\ load_pc' = [load_pc EXCEPT ![n_loads + 1] = "set_loading"]
                        /\ status_table' =
                              StoreStatus(status_table, "Mesh Viewer", "Loading Mesh")
                        /\ observer_value' = DeepCopy("table")
                        /\ observer_copy' = status_table'
                   ELSE UNCHANGED <<n_loads, load_pc, status_table,
                                    observer_value, observer_copy>>
         ELSE UNCHANGED <<mesh_file_dialog, n_loads, load_pc, status_table,
                          observer_value, observer_copy>>
    /\ frame_pc' = "resize"
    /\ UNCHANGED <<loaderVars, load_result, proc, pipe, meshGpuVars, vaoVars,
                   fbo, fboVars, shaderVars, countVars>>
    /\ UNCHANGED <<draw_wire_frame, gl_calls, uniform_writes, n_frames, tri_arr,
                   wire_arr, wire_op, status_pc, appVars, settingsVars, cameraVars>>

\* MeshViewerWindow.render lines 407-412 -> Viewport.resize: a changed content
\* region allocates a new framebuffer.
ResizeViewport ==
    /\ frame_pc = "resize"
    /\ \E changed \in BOOLEAN :
          fbo' = IF changed /\ fbo < MaxFbo THEN fbo + 1 ELSE fbo
    /\ frame_pc' = "vp_push"
    /\ UNCHANGED <<loaderVars, threadVars, mesh_file_dialog, meshGpuVars,
                   vaoVars, fboVars, shaderVars, countVars>>
    /\ UNCHANGED <<drawVars, cameraVars>>

\* Viewport.render line 213.
VpPush ==
    /\ frame_pc = "vp_push"
    /\ FBOPush(fbo)
    /\ frame_pc' = "vp_draw"
    /\ UNCHANGED <<loaderVars, threadVars, mesh_file_dialog, meshGpuVars,
                   vaoVars, fbo, shaderVars, countVars>>
    /\ UNCHANGED <<drawVars, cameraVars>>

\* Viewport.render lines 215-281: clear, uniforms, draw calls.
VpDraw ==
    /\ frame_pc = "vp_draw"
    /\ frame_pc' = "vp_pop"
    /\ UNCHANGED <<loaderVars, threadVars, mesh_file_dialog, meshGpuVars,
                   vaoVars, fbo, fboVars, shaderVars, countVars>>
    /\ UNCHANGED <<drawVars, cameraVars>>

\* Variant of the end of Viewport.render that returns without popping.
VpPop_Skipped ==
    /\ frame_pc = "vp_pop"
    /\ frame_pc' = "poll"
    /\ UNCHANGED <<loaderVars, threadVars, mesh_file_dialog, meshGpuVars,
                   vaoVars, fbo, fboVars, shaderVars, countVars>>
    /\ UNCHANGED <<drawVars, cameraVars>>

\* Viewport.render line 283; the frame ends and the next one starts.
VpPop ==
    /\ frame_pc = "vp_pop"
    /\ FBOPop
    /\ frame_pc' = "poll"
    /\ UNCHANGED <<loaderVars, threadVars, mesh_file_dialog, meshGpuVars,
                   vaoVars, fbo, shaderVars, countVars>>
    /\ UNCHANGED <<drawVars, cameraVars>>

\* ------------------------------------------------------------------ Shader
FileExists(f) == f.status # "missing"
FileIsFile(f) == f.status \in {"ok", "unreadable"}
\* read_text() succeeds on a readable regular file only.
ReadSucceeds(f) == f.status = "ok"

\* Variant of the constructor that checks and reads the vertex file only.
ConstructorRaises_VertOnly(vf, ff) ==
    ~FileExists(vf) \/ ~FileIsFile(vf) \/ ~ReadSucceeds(vf)

\* Shader.__init__ lines 42-61: the path checks and the two guarded reads,
\* each of which raises RuntimeError.
ConstructorRaises(vf, ff) ==
    \/ ~FileExists(vf) \/ ~FileIsFile(vf)
    \/ ~FileExists(ff) \/ ~FileIsFile(ff)
    \/ ~ReadSucceeds(vf)
    \/ ~ReadSucceeds(ff)

\* Variant of compile_shader without the except branch.
CompileShader_NoFallback(v, f, id) ==
    [raised |-> ~Compiles(v, f), program |-> UserProgram(id, v, f)]

\* Shader.compile_shader: the user's program, or the error program when
\* ctx.program raises. `raised` tells whether an exception leaves the method.
CompileShader(v, f, id) ==
    [raised |-> FALSE,
     program |-> IF Compiles(v, f) THEN UserProgram(id, v, f) ELSE ErrorProgram(id)]

\* Shader.reload_shader lines 67-72: the modification time seen for a file.
SeenChange(f, last_change) == IF FileExists(f) THEN f.mtime ELSE last_change

\* Shader.reload_shader lines 74 and 78: the test that detects a change.
ChangeDetected(last_change, change) == last_change < change

\* Viewport.load_shader (window.load_builtin_shader / load_custom_shader):
\* a new Shader is constructed from the two paths, then the vertex arrays
\* are assembled again.
LoadShader ==
    /\ n_programs < MaxPrograms
    /\ shader_op' = "init"
    /\ IF ConstructorRaises(vert_file, frag_file)
         THEN /\ shader_ret' = "raise"
              /\ UNCHANGED <<mesh_shader, n_programs, installed_by,
                                prev_install, vaoVars>>
         ELSE LET c == CompileShader(vert_file.text, frag_file.text, n_programs + 1)
              IN IF c.raised
                   THEN /\ shader_ret' = "raise"
                        /\ UNCHANGED <<mesh_shader, n_programs, installed_by,
                                prev_install, vaoVars>>
                   ELSE /\ shader_ret' = "None"
                        /\ mesh_shader' =
                              [vert_src |-> vert_file.text,
                               frag_src |-> frag_file.text,
                               vert_last_change |-> vert_file.mtime,
                               frag_last_change |-> frag_file.mtime,
                               program |-> c.program]
                        /\ n_programs' = n_programs + 1
                        /\ prev_install' = [kind |-> mesh_shader.program.kind, by |-> installed_by]
                        /\ installed_by' = "init"
                        /\ mesh_program' = c.program
                        /\ mesh_vao' = MeshVao(c.program, vbo_list, mesh_ibo)
                        /\ wire_vao' = WireVao(vbo_list, wire_ibo)
    /\ UNCHANGED <<vert_file, frag_file, loaderVars, threadVars, windowVars,
                   meshGpuVars, fbo, fboVars, countVars>>
    /\ UNCHANGED <<drawVars, cameraVars>>

\* Viewport.update_shader -> Shader.reload_shader, once per frame.  The stat
\* and the read of a file are taken as one look at the file.
UpdateShader ==
    /\ n_programs < MaxPrograms
    /\ shader_op' = "reload"
    /\ LET s == mesh_shader
           vert_change == SeenChange(vert_file, s.vert_last_change)
           frag_change == SeenChange(frag_file, s.frag_last_change)
           vert_changed == ChangeDetected(s.vert_last_change, vert_change)
           frag_changed == ChangeDetected(s.frag_last_change, frag_change)
           after_vert ==
               IF vert_changed
                 THEN [s EXCEPT !.vert_src = vert_file.text,
                                !.vert_last_change = vert_change]
                 ELSE s
           after_frag ==
               IF frag_changed
                 THEN [after_vert EXCEPT !.frag_src = frag_file.text,
                                         !.frag_last_change = frag_change]
                 ELSE after_vert
           c == CompileShader(after_frag.vert_src, after_frag.frag_src, n_programs + 1)
       IN CASE vert_changed /\ ~ReadSucceeds(vert_file) ->
                 \* line 75 raises before anything is assigned
                 /\ shader_ret' = "raise"
                 /\ UNCHANGED <<mesh_shader, n_programs, installed_by,
                                prev_install, vaoVars>>
            [] frag_changed /\ ~ReadSucceeds(frag_file) ->
                 \* line 79 raises after lines 75-76 have been executed
                 /\ shader_ret' = "raise"
                 /\ mesh_shader' = after_vert
                 /\ UNCHANGED <<n_programs, installed_by, prev_install, vaoVars>>
            [] (vert_changed \/ frag_changed) /\ c.raised ->
                 /\ shader_ret' = "raise"
                 /\ mesh_shader' = after_frag
                 /\ UNCHANGED <<n_programs, installed_by, prev_install, vaoVars>>
            [] vert_changed \/ frag_changed ->
                 /\ shader_ret' = "True"
                 /\ mesh_shader' = [after_frag EXCEPT !.program = c.program]
                 /\ n_programs' = n_programs + 1
                 /\ prev_install' = [kind |-> s.program.kind, by |-> installed_by]
                 /\ installed_by' = "reload"
                 /\ mesh_program' = c.program
                 /\ mesh_vao' = MeshVao(c.program, vbo_list, mesh_ibo)
                 /\ wire_vao' = WireVao(vbo_list, wire_ibo)
            [] OTHER ->
                 /\ shader_ret' = "False"
                 /\ UNCHANGED <<mesh_shader, n_programs, installed_by,
                                prev_install, vaoVars>>
    /\ UNCHANGED <<vert_file, frag_file, loaderVars, threadVars, windowVars,
                   meshGpuVars, fbo, fboVars, countVars>>
    /\ UNCHANGED <<drawVars, cameraVars>>

\* An editor or another process writes a shader file: new text, and a
\* modification time that is not earlier than the old one.
WrittenFile(f, t, m) == [f EXCEPT !.text = t, !.mtime = m]

EditVert ==
    /\ FileIsFile(vert_file)
    /\ \E t \in Texts, m \in 0..MaxTime :
          /\ m >= vert_file.mtime
          /\ vert_file' = WrittenFile(vert_file, t, m)
    /\ shader_op' = "env"
    /\ shader_ret' = "None"
    /\ UNCHANGED <<frag_file, mesh_shader, n_programs, installed_by, prev_install,
                   vaoVars, loaderVars, threadVars, windowVars, meshGpuVars,
                   fbo, fboVars, countVars>>
    /\ UNCHANGED <<drawVars, cameraVars>>

EditFrag ==
    /\ FileIsFile(frag_file)
    /\ \E t \in Texts, m \in 0..MaxTime :
          /\ m >= frag_file.mtime
          /\ frag_file' = WrittenFile(frag_file, t, m)
    /\ shader_op' = "env"
    /\ shader_ret' = "None"
    /\ UNCHANGED <<vert_file, mesh_shader, n_programs, installed_by, prev_install,
                   vaoVars, loaderVars, threadVars, windowVars, meshGpuVars,
                   fbo, fboVars, countVars>>
    /\ UNCHANGED <<drawVars, cameraVars>>

\* The path is removed, restored, made unreadable or replaced by a directory.
SetVertStatus ==
    /\ \E st \in FileStatus \ {vert_file.status} :
          vert_file' = [vert_file EXCEPT !.status = st]
    /\ shader_op' = "env"
    /\ shader_ret' = "None"
    /\ UNCHANGED <<frag_file, mesh_shader, n_programs, installed_by,
                   prev_install, vaoVars, loaderVars, threadVars, windowVars,
                   meshGpuVars, fbo, fboVars, countVars>>
    /\ UNCHANGED <<drawVars, cameraVars>>

SetFragStatus ==
    /\ \E st \in FileStatus \ {frag_file.status} :
          frag_file' = [frag_file EXCEPT !.status = st]
    /\ shader_op' = "env"
    /\ shader_ret' = "None"
    /\ UNCHANGED <<vert_file, mesh_shader, n_programs, installed_by,
                   prev_install, vaoVars, loaderVars, threadVars, windowVars,
                   meshGpuVars, fbo, fboVars, countVars>>
    /\ UNCHANGED <<drawVars, cameraVars>>

\* ------------------------------------------------------------------ Viewport between and in frames
\* `name in program` with type Uniform: the uniforms a linked program
\* declares.  The sources are files outside the program; the three programs
\* stand for sources that declare different subsets of the names.
ProgramUniforms(p) ==
    CASE p.kind = "wire" -> {"mat_MVP", "wire_color"}
      [] p.kind = "error" -> {"mat_MVP"}
      [] OTHER -> {"mat_M", "mat_MVP", "base_color", "wire_color"}

\* Viewport.render lines 228-247 and 249-272: the names it looks up in the
\* mesh program and in the wire frame program.
MeshUniformNames == {"mat_M", "mat_V", "mat_P", "mat_MV", "mat_MVP"}
WireUniformNames == {"mat_M", "mat_V", "mat_P", "mat_MV", "mat_MVP", "wire_color"}

\* The uniform writes of one Viewport.render: a name is written to a
\* program when the program declares it.
UniformWrites(mesh_p, wire_p) ==
    {<<"mesh", n>> : n \in MeshUniformNames \cap ProgramUniforms(mesh_p)}
      \cup {<<"wire", n>> : n \in WireUniformNames \cap ProgramUniforms(wire_p)}

\* Variant of the draw section that draws the wire frame whenever it is
\* enabled.
DrawCalls_WireWithoutMesh(list, wire, target) ==
    (IF Len(list) > 0 THEN <<[call |-> "mesh_vao.render", target |-> target]>> ELSE <<>>)
      \o (IF wire THEN <<[call |-> "wire_vao.render", target |-> target]>> ELSE <<>>)

\* Viewport.render lines 275-281: the draw calls, on the framebuffer in use.
DrawCalls(list, wire, target) ==
    IF Len(list) > 0
      THEN <<[call |-> "mesh_vao.render", target |-> target]>>
             \o (IF wire THEN <<[call |-> "wire_vao.render", target |-> target]>>
                 ELSE <<>>)
      ELSE <<>>

\* Viewport.load_mesh after a true is_loaded() poll, with the loader at rest
\* and holding the buffers of load i: one step of the render thread.
ViewportLoadMesh(i) ==
    /\ vbo_list' = <<<<i, "3f", "in_vert">>, <<i, "3f", "in_norm">>>>
    /\ mesh_ibo' = i
    /\ wire_ibo' = i
    /\ mesh_vao' = MeshVao(mesh_program, vbo_list', i)
    /\ wire_vao' = WireVao(vbo_list', i)
    /\ UNCHANGED <<loaderVars, threadVars, windowVars, mesh_program, fbo,
                   fboVars, shaderVars, countVars, drawVars, cameraVars>>

\* The "Draw Wire Frame" checkbox of the shading control window.
SetDrawWireFrame ==
    /\ draw_wire_frame' = ~draw_wire_frame
    /\ UNCHANGED <<loaderVars, threadVars, windowVars, meshGpuVars, vaoVars, fbo,
                   fboVars, shaderVars, countVars, gl_calls, uniform_writes,
                   n_frames, tri_arr, wire_arr, wire_op, statusVars, appVars, settingsVars, cameraVars>>

\* Viewport.render as one step: push, clear, uniform writes, draw calls, pop.
\* gl_calls lists the calls that use, clear or draw to a framebuffer, each
\* with the framebuffer it acts on.
ViewportRender ==
    /\ n_frames < MaxFrames
    /\ LET pushed == Append(stack, fbo)
           in_use == fbo
           popped == Front(pushed)
       IN /\ gl_calls' =
                <<[call |-> "fbo.use", target |-> fbo],
                  [call |-> "fbo.clear", target |-> fbo]>>
                \o DrawCalls(vbo_list, draw_wire_frame, in_use)
                \o (IF Len(popped) > 0
                      THEN <<[call |-> "fbo.use", target |-> ActiveAfterPop(popped, in_use)]>>
                      ELSE <<>>)
          /\ stack' = popped
          /\ active' = ActiveAfterPop(popped, in_use)
    /\ uniform_writes' = UniformWrites(mesh_program, wire_program)
    /\ n_frames' = n_frames + 1
    /\ fbo_op' = "pop"
    /\ UNCHANGED <<loaderVars, threadVars, windowVars, meshGpuVars, vaoVars, fbo,
                   saved, shaderVars, countVars, draw_wire_frame, tri_arr,
                   wire_arr, wire_op, statusVars, appVars, settingsVars, cameraVars>>

\* ------------------------------------------------------------------ camera
\* Values of the camera parameters.  Angles are in units of pi/4 and the
\* near plane in tenths; the parameters take a few values of their slider
\* ranges, the defaults of CameraParameters among them.  Raw values are what
\* a drag or the scroll arithmetic delivers before it is wrapped or clamped.
RawRhoValues == {0, 3, 25}
RawAngleValues == {-6, 1, 2, 4}
RawOrthScaleValues == {0, 10, 25}
\* Content region sizes: widths in pixels, heights in half pixels (a height
\* below one pixel truncates to 0).
WidthValues == {1, 2}
HalfHeightValues == {1, 2, 4}

\* cam_modes[cam_mode_idx]
CamMode(cs) == IF cs.cam_mode_idx = 0 THEN "ORTHOGONAL" ELSE "PERSPECTIVE"

\* Variant of the wrap that stores the angle as delivered.
WrapAngle_Unwrapped(x) == x

\* (x + pi) % (2 * pi) - pi, in units of pi/4.
WrapAngle(x) == ((x + 4) % 8) - 4

\* glm.clamp(x, 1, 20)
Clamp(x) == IF x < 1 THEN 1 ELSE IF x > 20 THEN 20 ELSE x

\* int(h) of a height given in half pixels.
IntOfHalves(hh) == hh \div 2

RECURSIVE GCD(_, _)
GCD(a, b) == IF b = 0 THEN a ELSE GCD(b, a % b)

\* w / h as a fraction in lowest terms: equal quotients are equal values.
Quotient(w, h) == <<w \div GCD(w, h), h \div GCD(w, h)>>

\* get_cam_transform and Viewport.update_view_mat: the view matrix is a
\* function of rho, theta and phi.
ViewMat(cs) == [rho |-> cs.rho, theta |-> cs.theta, phi |-> cs.phi]

\* Variant of the projection that scales with the camera distance.
ProjectionMat_WithRho(cs, asp) ==
    [kind |-> CamMode(cs), extent |-> cs.rho, aspect |-> asp,
     near |-> cs.cam_near, far |-> cs.cam_far]

\* update_projection_mat with Viewport.update_orthogonal_mat and
\* update_perspective_mat: a function of the mode, of the scale or the field
\* of view, of the aspect ratio and of the clipping planes.
ProjectionMat(cs, asp) ==
    [kind |-> CamMode(cs),
     extent |-> IF CamMode(cs) = "ORTHOGONAL" THEN cs.cam_orth_scale
                ELSE cs.cam_perspective_fov,
     aspect |-> asp, near |-> cs.cam_near, far |-> cs.cam_far]

\* What a camera operation leaves alone.
CameraFrame ==
    UNCHANGED <<loaderVars, threadVars, windowVars, meshGpuVars, vaoVars,
                fboVars, shaderVars, countVars, drawVars>>

\* cam_control_window lines 209-215: the distance slider.
SetRho ==
    /\ cam_op # "raise"
    /\ \E v \in {1, 3, 20} :
          /\ cam_states' = [cam_states EXCEPT !.rho = v]
          /\ view_mat' = IF v # cam_states.rho THEN ViewMat(cam_states') ELSE view_mat
    /\ cam_op' = "rho"
    /\ UNCHANGED <<perspective_mat, size, aspect, target_size, fbo,
                   registered>>
    /\ CameraFrame

\* cam_control_window lines 221-230: the theta drag, wrapped into [-pi, pi).
SetTheta ==
    /\ cam_op # "raise"
    /\ \E v \in RawAngleValues :
          /\ cam_states' = [cam_states EXCEPT !.theta =
                               IF v # cam_states.theta THEN WrapAngle(v) ELSE v]
          /\ view_mat' = IF v # cam_states.theta THEN ViewMat(cam_states') ELSE view_mat
    /\ cam_op' = "theta"
    /\ UNCHANGED <<perspective_mat, size, aspect, target_size, fbo,
                   registered>>
    /\ CameraFrame

\* cam_control_window lines 231-239: the phi drag.
SetPhi ==
    /\ cam_op # "raise"
    /\ \E v \in RawAngleValues :
          /\ cam_states' = [cam_states EXCEPT !.phi =
                               IF v # cam_states.phi THEN WrapAngle(v) ELSE v]
          /\ view_mat' = IF v # cam_states.phi THEN ViewMat(cam_states') ELSE view_mat
    /\ cam_op' = "phi"
    /\ UNCHANGED <<perspective_mat, size, aspect, target_size, fbo,
                   registered>>
    /\ CameraFrame

\* cam_control_window lines 243-246: the camera mode combo.
SetMode ==
    /\ cam_op # "raise"
    /\ \E v \in {0, 1} :
          /\ cam_states' = [cam_states EXCEPT !.cam_mode_idx = v]
          /\ perspective_mat' =
                IF v # cam_states.cam_mode_idx THEN ProjectionMat(cam_states', aspect)
                ELSE perspective_mat
    /\ cam_op' = "mode"
    /\ UNCHANGED <<view_mat, size, aspect, target_size, fbo,
                   registered>>
    /\ CameraFrame

\* cam_control_window lines 247-250: the near plane slider, from 0.001 to 1.
\* slider_float is called without a clamping flag, so a value typed into the
\* slider (Ctrl+click) is returned as typed: 200.0 stands for such a value.
SetNear ==
    /\ cam_op # "raise"
    /\ \E v \in {1, 2, 2000} :
          /\ cam_states' = [cam_states EXCEPT !.cam_near = v]
          /\ perspective_mat' =
                IF v # cam_states.cam_near THEN ProjectionMat(cam_states', aspect)
                ELSE perspective_mat
    /\ cam_op' = "near"
    /\ UNCHANGED <<view_mat, size, aspect, target_size, fbo,
                   registered>>
    /\ CameraFrame

\* Variant of the far plane slider that leaves the projection as it was.
SetFar_NoProjectionUpdate ==
    /\ cam_op # "raise"
    /\ \E v \in {50, 100} :
          cam_states' = [cam_states EXCEPT !.cam_far = v]
    /\ cam_op' = "far"
    /\ UNCHANGED <<view_mat, perspective_mat, size, aspect, target_size, fbo,
                   registered>>
    /\ CameraFrame

\* cam_control_window lines 251-254: the far plane slider.
SetFar ==
    /\ cam_op # "raise"
    /\ \E v \in {50, 100} :
          /\ cam_states' = [cam_states EXCEPT !.cam_far = v]
          /\ perspective_mat' =
                IF v # cam_states.cam_far THEN ProjectionMat(cam_states', aspect)
                ELSE perspective_mat
    /\ cam_op' = "far"
    /\ UNCHANGED <<view_mat, size, aspect, target_size, fbo,
                   registered>>
    /\ CameraFrame

\* cam_control_window lines 255-259: the scale slider, shown in orthogonal mode.
SetOrthScale ==
    /\ cam_op # "raise"
    /\ CamMode(cam_states) = "ORTHOGONAL"
    /\ \E v \in {10, 20} :
          /\ cam_states' = [cam_states EXCEPT !.cam_orth_scale = v]
          /\ perspective_mat' =
                IF v # cam_states.cam_orth_scale THEN ProjectionMat(cam_states', aspect)
                ELSE perspective_mat
    /\ cam_op' = "scale"
    /\ UNCHANGED <<view_mat, size, aspect, target_size, fbo,
                   registered>>
    /\ CameraFrame

\* cam_control_window lines 260-264: the field of view slider, shown in
\* perspective mode.
SetFov ==
    /\ cam_op # "raise"
    /\ CamMode(cam_states) = "PERSPECTIVE"
    /\ \E v \in {60, 90} :
          /\ cam_states' = [cam_states EXCEPT !.cam_perspective_fov = v]
          /\ perspective_mat' =
                IF v # cam_states.cam_perspective_fov
                  THEN ProjectionMat(cam_states', aspect)
                  ELSE perspective_mat
    /\ cam_op' = "fov"
    /\ UNCHANGED <<view_mat, size, aspect, target_size, fbo,
                   registered>>
    /\ CameraFrame

\* MeshViewerWindow.render lines 434-458: rotation by trackpad scroll or by
\* the middle mouse button; both angles are rewritten and wrapped.
MouseRotate ==
    /\ cam_op # "raise"
    /\ \E t \in RawAngleValues, p \in RawAngleValues :
          /\ cam_states' = [cam_states EXCEPT !.theta = WrapAngle(t),
                                              !.phi = WrapAngle(p)]
          /\ view_mat' = ViewMat(cam_states')
    /\ cam_op' = "rotate"
    /\ UNCHANGED <<perspective_mat, size, aspect, target_size, fbo,
                   registered>>
    /\ CameraFrame

\* MeshViewerWindow.render lines 459-475: the scroll wheel moves rho in
\* perspective mode and the scale in orthogonal mode, clamped to [1, 20];
\* both matrices are computed again.
ScrollZoom ==
    /\ cam_op # "raise"
    /\ IF CamMode(cam_states) = "PERSPECTIVE"
         THEN \E v \in RawRhoValues :
                 cam_states' = [cam_states EXCEPT !.rho = Clamp(v)]
         ELSE \E v \in RawOrthScaleValues :
                 cam_states' = [cam_states EXCEPT !.cam_orth_scale = Clamp(v)]
    /\ view_mat' = ViewMat(cam_states')
    /\ perspective_mat' = ProjectionMat(cam_states', aspect)
    /\ cam_op' = "zoom"
    /\ UNCHANGED <<size, aspect, target_size, fbo,
                   registered>>
    /\ CameraFrame

\* MeshViewerWindow.render lines 407-412 with resize_view_port and
\* Viewport.resize: the content region is (w, h) with h given in half
\* pixels.  resize_view_port removes the render texture from the UI renderer,
\* resizes and registers the new texture.  Viewport.resize assigns size, then
\* divides w by h, which raises
\* ZeroDivisionError when int(h) is 0; otherwise it allocates the texture,
\* the depth buffer and the framebuffer at the new size, and the window
\* computes the projection again.
Resize ==
    /\ cam_op # "raise"
    /\ \E w \in WidthValues, hh \in HalfHeightValues :
          LET h == IntOfHalves(hh)
          IN /\ w > 0 /\ hh > 0 /\ size # <<w, h>>
             /\ size' = <<w, h>>
             /\ IF h = 0
                  THEN /\ cam_op' = "raise"
                       /\ registered' = registered \ {fbo}
                       /\ UNCHANGED <<aspect, target_size, fbo, perspective_mat>>
                  ELSE /\ cam_op' = "resize"
                       /\ aspect' = Quotient(w, h)
                       /\ target_size' = <<w, h>>
                       /\ fbo' = IF fbo < MaxFbo THEN fbo + 1 ELSE fbo
                       /\ registered' = (registered \ {fbo}) \cup {fbo'}
                       /\ perspective_mat' = ProjectionMat(cam_states, aspect')
    /\ UNCHANGED <<cam_states, view_mat>>
    /\ CameraFrame

\* ------------------------------------------------------------------ wire edges
\* Triangle index arrays: one row of three vertex indices per triangle.
Triangles == {<<a, b, c>> : a \in 0..2, b \in 0..2, c \in 0..2}
IndexArrays == UNION {[1..t -> Triangles] : t \in 1..MaxTriangles}

\* np.hstack((np.vstack((col0, col1)), np.vstack((col1, col2)),
\* np.vstack((col0, col2)))).T: the rows (a, b) of all triangles, then the
\* rows (b, c), then the rows (a, c).
EdgeRows(arr) ==
    [k \in 1..Len(arr) |-> <<arr[k][1], arr[k][2]>>]
      \o [k \in 1..Len(arr) |-> <<arr[k][2], arr[k][3]>>]
      \o [k \in 1..Len(arr) |-> <<arr[k][1], arr[k][3]>>]

\* Variant of the row sort that keeps the order of the triangle.
SortRow_AsGiven(row) == row

\* wire_arr.sort(axis=1) on one row.
SortRow(row) == IF row[1] <= row[2] THEN row ELSE <<row[2], row[1]>>

\* The order of rows np.unique(axis=0) sorts by.
RowLeq(p, q) == p[1] < q[1] \/ (p[1] = q[1] /\ p[2] <= q[2])

RECURSIVE SortedRows(_)
SortedRows(S) ==
    IF S = {} THEN <<>>
    ELSE LET least == CHOOSE p \in S : \A q \in S : RowLeq(p, q)
         IN <<least>> \o SortedRows(S \ {least})

\* np.unique(wire_arr, axis=0): the distinct rows in sorted order.
UniqueRows(rows) == SortedRows({rows[k] : k \in 1..Len(rows)})

\* Viewport.load_mesh lines 122-131.
WireEdges(arr) ==
    UniqueRows([k \in 1..(3 * Len(arr)) |-> SortRow(EdgeRows(arr)[k])])

\* Viewport.load_mesh builds the wire edge array of the mesh it was handed.
BuildWireEdges ==
    /\ wire_op = "none"
    /\ tri_arr # <<>>
    /\ wire_arr' = WireEdges(tri_arr)
    /\ wire_op' = "built"
    /\ UNCHANGED <<loaderVars, threadVars, windowVars, meshGpuVars, vaoVars, fbo,
                   fboVars, shaderVars, countVars, draw_wire_frame, gl_calls,
                   uniform_writes, n_frames, tri_arr, statusVars, appVars, settingsVars, cameraVars>>

\* ------------------------------------------------------------------ window registry
\* The keys of the three windows, in the order of their menu items.
MenuOrder == <<"settings", "mesh_viewer", "about">>
WindowKeys == {"settings", "mesh_viewer", "about"}

Keys(seq) == {seq[k] : k \in 1..Len(seq)}

\* del self.windows[key] on a dictionary that keeps insertion order.
Without(seq, key) == SelectSeq(seq, LAMBDA k : k # key)

\* App.add_window: KeyError for a key that is present.
AddWindow(st, key) ==
    IF key \in Keys(st.windows) THEN [st EXCEPT !.pc = "raise_add"]
    ELSE [st EXCEPT !.windows = Append(@, key)]

\* App.remove_window: KeyError for a key that is absent, else the key is
\* appended to the removal queue.
RemoveWindow(st, key) ==
    IF key \notin Keys(st.windows) THEN [st EXCEPT !.pc = "raise_remove"]
    ELSE [st EXCEPT !.queue = Append(@, key)]

\* One menu item of Dockspace.render: a click flips the flag, then the
\* window is added or its removal requested.
MenuItem(st, key, clicked) ==
    IF st.pc # "ok" \/ ~clicked THEN st
    ELSE IF ~st.show[key]
           THEN AddWindow([st EXCEPT !.show[key] = TRUE], key)
           ELSE RemoveWindow([st EXCEPT !.show[key] = FALSE], key)

RECURSIVE MenuBar(_, _, _)
MenuBar(st, k, clicks) ==
    IF k > Len(MenuOrder) THEN st
    ELSE MenuBar(MenuItem(st, MenuOrder[k], MenuOrder[k] \in clicks), k + 1, clicks)

\* Variant of the close callback that leaves the menu flag set.
CloseWindow_KeepsFlag(st, key, closed) ==
    IF st.pc # "ok" \/ ~closed THEN st
    ELSE RemoveWindow(st, key)

\* The close callback handed to a window, called by its render when the
\* window's close button was used.
CloseWindow(st, key, closed) ==
    IF st.pc # "ok" \/ ~closed THEN st
    ELSE RemoveWindow([st EXCEPT !.show[key] = FALSE], key)

\* App.on_render lines 196-197: every window of the registry renders.
RECURSIVE RenderWindows(_, _, _)
RenderWindows(st, k, closes) ==
    IF k > Len(st.windows) THEN st
    ELSE RenderWindows(CloseWindow(st, st.windows[k], st.windows[k] \in closes),
                       k + 1, closes)

\* App.on_render lines 199-200: del self.windows[key] for every queued key;
\* del raises KeyError for a key that is no longer there.
RECURSIVE ProcessQueue(_, _)
ProcessQueue(st, k) ==
    IF k > Len(st.queue) \/ st.pc # "ok" THEN st
    ELSE IF st.queue[k] \notin Keys(st.windows)
           THEN [st EXCEPT !.pc = "raise_del"]
           ELSE ProcessQueue([st EXCEPT !.windows = Without(@, st.queue[k])], k + 1)

AppState == [windows |-> windows, show |-> show, queue |-> windows_remove_queue,
             pc |-> "ok"]

AppFrame ==
    UNCHANGED <<loaderVars, threadVars, windowVars, meshGpuVars, vaoVars, fbo,
                fboVars, shaderVars, countVars, draw_wire_frame, gl_calls,
                uniform_writes, n_frames, tri_arr, wire_arr, wire_op,
                statusVars, settingsVars, cameraVars>>

\* App.on_render lines 191-194: the removal queue is emptied and the
\* Dockspace renders its menu bar.
DockspaceRender ==
    /\ app_pc = "dockspace"
    /\ \E clicks \in SUBSET WindowKeys :
          LET st == MenuBar([AppState EXCEPT !.queue = <<>>], 1, clicks)
          IN /\ windows' = st.windows
             /\ show' = st.show
             /\ windows_remove_queue' = st.queue
             /\ app_pc' = IF st.pc = "ok" THEN "windows" ELSE st.pc
    /\ AppFrame

\* App.on_render lines 196-197.
WindowsRender ==
    /\ app_pc = "windows"
    /\ \E closes \in SUBSET Keys(windows) :
          LET st == RenderWindows(AppState, 1, closes)
          IN /\ windows' = st.windows
             /\ show' = st.show
             /\ windows_remove_queue' = st.queue
             /\ app_pc' = IF st.pc = "ok" THEN "remove" ELSE st.pc
    /\ AppFrame

\* App.on_render lines 199-200; the frame ends.
ProcessRemovals ==
    /\ app_pc = "remove"
    /\ LET st == ProcessQueue(AppState, 1)
       IN /\ windows' = st.windows
          /\ app_pc' = IF st.pc = "ok" THEN "dockspace" ELSE st.pc
    /\ UNCHANGED <<show, windows_remove_queue>>
    /\ AppFrame

\* ------------------------------------------------------------------ settings
\* The values declared for the fields in settings.py; one boolean field and
\* one integer slider field stand for the fields of the two groups.
DeclaredDefaults == [show_fps_counter |-> FALSE, int_slider_field |-> 0]

\* The values the widgets of the two fields can deliver.
FieldValues == [show_fps_counter |-> BOOLEAN, int_slider_field |-> {0, 5, 10}]

\* Settings(): settings_field makes one SettingsField object per declaration
\* and default_factory=lambda: settings_field hands that same object to
\* every instance, so the fields of a new Settings are the shared objects.
NewSettings == [ref |-> "default", own |-> DeclaredDefaults]

\* The field values seen through a Settings object.
SettingsValue(ref, own) == IF ref = "default" THEN default_fields ELSE own

SettingsFrame ==
    UNCHANGED <<loaderVars, threadVars, windowVars, meshGpuVars, vaoVars, fbo,
                fboVars, shaderVars, countVars, draw_wire_frame, gl_calls,
                uniform_writes, n_frames, tri_arr, wire_arr, wire_op,
                statusVars, appVars, cameraVars>>

\* SettingsWindow.__init__: unsaved_settings is a deep copy of the state.
OpenSettingsWindow ==
    /\ unsaved_ref' = "own"
    /\ unsaved_own' = SettingsValue(state_ref, state_own)
    /\ unsave' = FALSE
    /\ settings_op' = "open"
    /\ UNCHANGED <<default_fields, state_ref, state_own>>
    /\ SettingsFrame

\* render_settings_field: the widget writes field.value of the object the
\* unsaved settings refer to.
EditField ==
    /\ settings_op # "closed"
    /\ \E name \in DOMAIN DeclaredDefaults :
          \E v \in FieldValues[name] :
             /\ v # SettingsValue(unsaved_ref, unsaved_own)[name]
             /\ IF unsaved_ref = "default"
                  THEN /\ default_fields' = [default_fields EXCEPT ![name] = v]
                       /\ UNCHANGED unsaved_own
                  ELSE /\ unsaved_own' = [unsaved_own EXCEPT ![name] = v]
                       /\ UNCHANGED default_fields
    /\ unsave' = TRUE
    /\ settings_op' = "edit"
    /\ UNCHANGED <<unsaved_ref, state_ref, state_own>>
    /\ SettingsFrame

\* SettingsWindow.render lines 122-128: Save hands the unsaved object to the
\* state and goes on with a deep copy of it.
SaveSettings ==
    /\ settings_op # "closed"
    /\ unsave
    /\ state_ref' = unsaved_ref
    /\ state_own' = unsaved_own
    /\ unsaved_ref' = "own"
    /\ unsaved_own' = SettingsValue(unsaved_ref, unsaved_own)
    /\ unsave' = FALSE
    /\ settings_op' = "save"
    /\ UNCHANGED default_fields
    /\ SettingsFrame

\* SettingsWindow.render lines 130-133: Reset to Default.
ResetToDefault ==
    /\ settings_op # "closed"
    /\ unsaved_ref' = NewSettings.ref
    /\ unsaved_own' = NewSettings.own
    /\ unsave' = TRUE
    /\ settings_op' = "reset"
    /\ UNCHANGED <<default_fields, state_ref, state_own>>
    /\ SettingsFrame

\* ------------------------------------------------------------------ FBOStack on its own
StackPush ==
    /\ Len(stack) < MaxDepth
    /\ \E f \in Fbos : FBOPush(f)
    /\ UNCHANGED <<loaderVars, threadVars, windowVars, meshGpuVars, vaoVars, fbo,
                   shaderVars, countVars>>
    /\ UNCHANGED <<drawVars, cameraVars>>

StackPop ==
    /\ FBOPop
    /\ UNCHANGED <<loaderVars, threadVars, windowVars, meshGpuVars, vaoVars, fbo,
                   shaderVars, countVars>>
    /\ UNCHANGED <<drawVars, cameraVars>>

\* ------------------------------------------------------------------ initial states
\* Shader files as shipped: regular, readable, compiling.
InitFile == [status |-> "ok", mtime |-> 0, text |-> "a"]

ShaderInit ==
    /\ vert_file = InitFile
    /\ frag_file = InitFile
    /\ mesh_shader = [vert_src |-> "a", frag_src |-> "a", vert_last_change |-> 0,
                      frag_last_change |-> 0, program |-> UserProgram(1, "a", "a")]
    /\ n_programs = 1
    /\ shader_op = "init"
    /\ shader_ret = "None"
    /\ prev_install = [kind |-> "none", by |-> "none"]
    /\ installed_by = "init"
    /\ mesh_program = UserProgram(1, "a", "a")
    /\ mesh_vao = MeshVao(UserProgram(1, "a", "a"), <<>>, 0)
    /\ wire_vao = WireVao(<<>>, 0)

LoaderInit ==
    /\ loading = FALSE
    /\ loaded = FALSE
    /\ mesh_loading_lock = 0
    /\ mesh = 0
    /\ vertex_arr = 0
    /\ normal_arr = 0
    /\ index_arr = 0
    /\ vertex_buf = 0
    /\ normal_buf = 0
    /\ index_buf = 0
    /\ n_loads = 0
    /\ load_pc = [i \in Loads |-> "unstarted"]
    /\ load_result = [i \in Loads |-> "none"]
    /\ proc = [i \in Loads |-> "unstarted"]
    /\ pipe = [i \in Loads |-> "empty"]
    /\ frame_pc = "poll"
    /\ mesh_file_dialog = "None"
    /\ vbo_list = <<>>
    /\ mesh_ibo = 0
    /\ wire_ibo = 0
    /\ n_true_polls = 0
    /\ n_published = 0

\* The Viewport class attributes and CameraParameters defaults, after
\* MeshViewerWindow.__init__ has computed both matrices.
DefaultCamStates ==
    [rho |-> 3, theta |-> 2, phi |-> 1, cam_mode_idx |-> 1, cam_near |-> 1,
     cam_far |-> 100, cam_orth_scale |-> 10, cam_perspective_fov |-> 90]

\* StatusState.__init__ and StatusObserver.__init__: two empty dictionaries.
StatusInit ==
    /\ status_table = {}
    /\ observer_copy = {}
    /\ observer_value = "copy"
    /\ status_pc = "idle"

\* App class attributes and Dockspace.__init__: the mesh viewer window is
\* registered and its flag set.
AppInit ==
    /\ windows = <<"mesh_viewer">>
    /\ show = [k \in WindowKeys |-> k = "mesh_viewer"]
    /\ windows_remove_queue = <<>>
    /\ app_pc = "dockspace"

\* The field objects hold their declared values; App.__init__ found no
\* configuration file and load_settings returned Settings(); no settings
\* window exists.
SettingsInit ==
    /\ default_fields = DeclaredDefaults
    /\ state_ref = NewSettings.ref
    /\ state_own = NewSettings.own
    /\ unsaved_ref = "own"
    /\ unsaved_own = DeclaredDefaults
    /\ unsave = FALSE
    /\ settings_op = "closed"

\* No mesh has been handed to the viewport.
WireInit ==
    /\ tri_arr = <<>>
    /\ wire_arr = <<>>
    /\ wire_op = "none"

ViewInit ==
    /\ draw_wire_frame = TRUE
    /\ gl_calls = <<>>
    /\ uniform_writes = {}
    /\ n_frames = 0
    /\ cam_states = DefaultCamStates
    /\ size = <<0, 0>>
    /\ aspect = <<1, 1>>
    /\ target_size = <<1, 1>>
    /\ view_mat = ViewMat(DefaultCamStates)
    /\ perspective_mat = ProjectionMat(DefaultCamStates, <<1, 1>>)
    /\ cam_op = "init"
    /\ registered = {1}

\* After App.__init__ (fbo_stack.push(self.wnd.fbo)) and the construction of
\* the mesh viewer window with the default shader.
Init ==
    /\ LoaderInit
    /\ ShaderInit
    /\ ViewInit
    /\ WireInit
    /\ StatusInit
    /\ AppInit
    /\ SettingsInit
    /\ fbo = 1
    /\ stack = <<WndFbo>>
    /\ active = WndFbo
    /\ saved = <<[active |-> WndFbo, stack |-> <<>>]>>
    /\ fbo_op = "push"

Next ==
    \/ \E i \in Loads : LoadSetLoading(i)
    \/ \E i \in Loads : LoadSpawn(i)
    \/ \E i \in Loads : LoadProc(i)
    \/ \E i \in Loads : LoadProcCrash(i)
    \/ \E i \in Loads : LoadRecv(i)
    \/ \E i \in Loads : LoadPublish(i)
    \/ \E i \in Loads : LoadClear(i)
    \/ PollMesh
    \/ ReadVertexBuf
    \/ ReadNormalBuf
    \/ ReadIndexBuf
    \/ ReadIndexArr
    \/ MenuLoadMesh
    \/ DialogReady
    \/ DialogResult
    \/ ResizeViewport
    \/ VpPush
    \/ VpDraw
    \/ VpPop

Spec == Init /\ [][Next]_vars

\* The shader with its two files, driven by the render thread's per-frame
\* update_shader, by shader (re)loads from the UI and by edits of the files.
InitShader ==
    /\ LoaderInit
    /\ ShaderInit
    /\ ViewInit
    /\ WireInit
    /\ StatusInit
    /\ AppInit
    /\ SettingsInit
    /\ fbo = 1
    /\ stack = <<WndFbo>>
    /\ active = WndFbo
    /\ saved = <<[active |-> WndFbo, stack |-> <<>>]>>
    /\ fbo_op = "push"

NextShader ==
    \/ LoadShader
    \/ UpdateShader
    \/ EditVert
    \/ EditFrag
    \/ SetVertStatus
    \/ SetFragStatus

SpecShader == InitShader /\ [][NextShader]_vars

\* A freshly constructed FBOStack under arbitrary push and pop calls.
InitFBO ==
    /\ LoaderInit
    /\ ShaderInit
    /\ ViewInit
    /\ WireInit
    /\ StatusInit
    /\ AppInit
    /\ SettingsInit
    /\ fbo = 1
    /\ stack = <<>>
    /\ active = WndFbo
    /\ saved = <<>>
    /\ fbo_op = "none"

NextFBO ==
    \/ StackPush
    \/ StackPop

SpecFBO == InitFBO /\ [][NextFBO]_vars

\* The viewport on the render thread: mesh replacements, shader loads and
\* reloads, the wire frame switch and rendered frames, in any order.
NextViewport ==
    \/ \E i \in Loads : ViewportLoadMesh(i)
    \/ SetDrawWireFrame
    \/ ViewportRender
    \/ LoadShader
    \/ UpdateShader
    \/ EditVert

SpecViewport == Init /\ [][NextViewport]_vars

\* The camera: the control window, mouse interaction and viewport resizes.
NextCamera ==
    \/ SetRho
    \/ SetTheta
    \/ SetPhi
    \/ SetMode
    \/ SetNear
    \/ SetFar
    \/ SetOrthScale
    \/ SetFov
    \/ MouseRotate
    \/ ScrollZoom
    \/ Resize

SpecCamera == Init /\ [][NextCamera]_vars

\* Viewport.load_mesh deriving the wire edges of any triangle index array.
InitWire ==
    /\ LoaderInit
    /\ ShaderInit
    /\ ViewInit
    /\ tri_arr \in IndexArrays
    /\ wire_arr = <<>>
    /\ wire_op = "none"
    /\ StatusInit
    /\ AppInit
    /\ SettingsInit
    /\ fbo = 1
    /\ stack = <<WndFbo>>
    /\ active = WndFbo
    /\ saved = <<[active |-> WndFbo, stack |-> <<>>]>>
    /\ fbo_op = "push"

NextWire == BuildWireEdges

SpecWire == InitWire /\ [][NextWire]_vars

\* The status table and its observer under any sequence of update_status and
\* finish_status calls.
NextStatus ==
    \/ UpdateStatusStore
    \/ FinishStatusDelete
    \/ StatusNotify

SpecStatus == Init /\ [][NextStatus]_vars

\* The window registry of the App over any sequence of frames with menu
\* clicks and window close events.
NextApp ==
    \/ DockspaceRender
    \/ WindowsRender
    \/ ProcessRemovals

SpecApp == Init /\ [][NextApp]_vars

\* The settings window over any sequence of openings, edits, saves and resets.
NextSettings ==
    \/ OpenSettingsWindow
    \/ EditField
    \/ SaveSettings
    \/ ResetToDefault

SpecSettings == Init /\ [][NextSettings]_vars

\* ------------------------------------------------------------------ claims: mesh loading
\* C1: at most one mesh load is in flight at any time: no second
\* MeshLoader.load is started while an earlier one has not finished.
C1_AtMostOneLoadInFlight == Cardinality(InFlight) <= 1

\* C2: each successfully completed load is consumed by exactly one true
\* is_loaded() poll: the true polls so far, plus the one still owed while
\* the flag is set, equal the number of completed publications.
C2_EachMeshConsumedOnce ==
    n_true_polls + (IF loaded THEN 1 ELSE 0) = n_published

\* C3: once Viewport.load_mesh has finished after a true poll, the vertex,
\* normal and index buffers and the wire edge buffer it built all come from
\* the same completed load.
C3_NoPartialBufferReads ==
    (frame_pc \notin {"rd_vertex_buf", "rd_normal_buf", "rd_index_buf", "rd_index_arr"}
       /\ vbo_list # <<>>)
    => /\ vbo_list[1][1] = vbo_list[2][1]
       /\ vbo_list[1][1] = mesh_ibo
       /\ vbo_list[1][1] = wire_ibo

\* C4: a load whose worker delivered anything but a single Trimesh changes
\* none of the published fields, never sets loaded, and ends by clearing
\* loading.
C4_FailedLoadLeavesBuffers ==
    [][\A i \in Loads :
          (load_pc'[i] # load_pc[i] /\ load_pc[i] \notin {"unstarted", "set_loading", "spawn"}
             /\ load_result'[i] # "Trimesh")
          => /\ UNCHANGED bufferVars
             /\ loaded' = loaded
             /\ load_pc'[i] \in {"clear", "done"}
             /\ load_pc'[i] = "done" => ~loading']_vars

\* A failed load has returned: it received None or a non-Trimesh value, and
\* loading is false again.
C4_Witness ==
    \E i \in Loads :
        /\ load_pc[i] = "done"
        /\ load_result[i] \in {"None", "Scene"}
        /\ ~loading
        /\ ~loaded

\* C5: whenever the worker process of a load has ended, load() has a value
\* to receive or has already received one: it is never left blocked on an
\* empty pipe with loading still set.
C5_WorkerEndSurfaces ==
    \A i \in Loads :
        ~(load_pc[i] = "recv" /\ proc[i] \in {"exited", "crashed"} /\ pipe[i] = "empty")

\* ------------------------------------------------------------------ claims: framebuffer stack in the frame
\* C7: the window framebuffer pushed by App.__init__ is always the bottom of
\* the stack, so every push of Viewport.render happens on a non-empty stack;
\* the depth is 2 only between that push and its pop and 1 otherwise.
C7_BaseTargetBeneath ==
    /\ Len(stack) >= 1
    /\ stack[1] = WndFbo
    /\ Len(stack) = (IF frame_pc \in {"vp_draw", "vp_pop"} THEN 2 ELSE 1)
    /\ frame_pc \in {"vp_draw", "vp_pop"} => (stack[2] = fbo /\ active = fbo)
    /\ frame_pc \notin {"vp_draw", "vp_pop"} => active = WndFbo

\* Viewport.render has pushed a framebuffer allocated by a resize on top of
\* the window framebuffer.
C7_Witness ==
    /\ frame_pc = "vp_draw"
    /\ stack = <<WndFbo, fbo>>
    /\ fbo > 1
    /\ n_true_polls > 0

\* ------------------------------------------------------------------ claims: FBOStack
\* C6: a pop that leaves the stack non-empty restores the stack contents and
\* the active framebuffer to what they were immediately before its matching
\* push, and that framebuffer is the top of the restored stack; by induction
\* a balanced, strictly nested sequence ends where it started.
C6_BalancedPushPopRestores ==
    [][(fbo_op' = "pop" /\ Len(stack') < Len(stack) /\ Len(stack') > 0)
         => /\ stack' = saved[Len(stack)].stack
            /\ active' = saved[Len(stack)].active
            /\ active' = Last(stack')]_vars

\* A nested pop has just returned to a stack of depth two or more whose
\* top is not the window framebuffer.
C6_Witness ==
    /\ fbo_op = "pop"
    /\ Len(stack) >= 2
    /\ active = Last(stack)
    /\ active # stack[1]

\* ------------------------------------------------------------------ claims: Shader
\* C8: reload_shader never raises because of a compile failure (it raises
\* only when a changed file cannot be read); after a reload that detected a
\* change, the program is the error program when the current sources do not
\* compile and a new program compiled from the current vertex and fragment
\* sources when they do, and the viewport uses it.
C8_ReloadFallsBack ==
    shader_op = "reload" =>
       /\ shader_ret = "raise" =>
             (vert_file.status # "ok" \/ frag_file.status # "ok")
       /\ shader_ret = "True" =>
             /\ mesh_shader.program =
                   (IF mesh_shader.vert_src # "bad" /\ mesh_shader.frag_src # "bad"
                      THEN [id |-> n_programs, kind |-> "user",
                            vert |-> mesh_shader.vert_src,
                            frag |-> mesh_shader.frag_src]
                      ELSE [id |-> n_programs, kind |-> "error",
                            vert |-> "error_vert_src", frag |-> "error_frag_src"])
             /\ mesh_program = mesh_shader.program

\* A reload has just replaced the error program by a program compiled from
\* the user's sources.
C8_Witness ==
    /\ shader_op = "reload"
    /\ shader_ret = "True"
    /\ prev_install = [kind |-> "error", by |-> "reload"]
    /\ mesh_shader.program.kind = "user"
    /\ mesh_program.kind = "user"

\* C9: every modification of a shader file is detected by a later
\* reload_shader call: once a reload has returned with both files readable,
\* the shader holds the text that is in the files.
C9_EveryModificationDetected ==
    (shader_op = "reload" /\ shader_ret # "raise"
       /\ vert_file.status = "ok" /\ frag_file.status = "ok")
    => /\ mesh_shader.vert_src = vert_file.text
       /\ mesh_shader.frag_src = frag_file.text

\* C10 as stated: a read failure or an initial-compile failure makes the
\* Shader constructor raise.
C10_InitFailureIsFatal ==
    (shader_op = "init"
       /\ (vert_file.status # "ok" \/ frag_file.status # "ok"
             \/ vert_file.text = "bad" \/ frag_file.text = "bad"))
    => shader_ret = "raise"

\* C10 as amended: the constructor raises exactly when a path is missing,
\* is not a file or cannot be read; when it returns, the Shader holds the
\* text of the files and its program is compiled from them, or is the
\* built-in error program when they do not compile.
C10_ReadFailureFatalCompileFallsBack ==
    shader_op = "init" =>
       /\ (shader_ret = "raise") <=>
             (vert_file.status # "ok" \/ frag_file.status # "ok")
       /\ shader_ret # "raise" =>
             /\ mesh_shader.vert_src = vert_file.text
             /\ mesh_shader.frag_src = frag_file.text
             /\ mesh_shader.program.kind =
                   (IF vert_file.text # "bad" /\ frag_file.text # "bad"
                      THEN "user" ELSE "error")
             /\ mesh_program = mesh_shader.program

\* The constructor has returned a Shader built from sources that do not
\* compile: it holds the error program.
C10_Witness ==
    /\ shader_op = "init"
    /\ shader_ret = "None"
    /\ (vert_file.text = "bad" \/ frag_file.text = "bad")
    /\ mesh_shader.program.kind = "error"

\* ------------------------------------------------------------------ claims: reload
\* C11: a reload_shader call made while a shader file is missing or
\* unreadable, and while the other file is unchanged or unusable too, is
\* skipped: it does not raise, and program, vert_src, frag_src,
\* vert_last_change and frag_last_change keep their values.
C11_BadFileSkipsReload ==
    [][(shader_op' = "reload"
          /\ (vert_file.status # "ok" \/ frag_file.status # "ok")
          /\ (vert_file.status # "ok" \/ vert_file.mtime <= mesh_shader.vert_last_change)
          /\ (frag_file.status # "ok" \/ frag_file.mtime <= mesh_shader.frag_last_change))
         => /\ shader_ret' # "raise"
            /\ mesh_shader' = mesh_shader]_vars

\* C12: program identity changes on every successful recompilation: the
\* identity of the shader's program never goes back to an earlier one, and a
\* reload_shader call that detected a change and compiled the user's
\* sources installs a program whose identity is newer than that of every
\* program installed before, also when the sources are the same text as
\* before; the viewport takes that program.
C12_ReloadInstallsNewProgram ==
    [][/\ mesh_shader'.program.id >= mesh_shader.program.id
       /\ (shader_op' = "reload" /\ shader_ret' = "True"
             /\ mesh_shader'.program.kind = "user")
          => /\ mesh_shader'.program.id > mesh_shader.program.id
             /\ mesh_shader'.program # mesh_shader.program
             /\ mesh_program' = mesh_shader'.program]_vars

\* A reload has compiled the same source text as the user program it
\* replaced, and the program it installed is a different object.
C12_Witness ==
    /\ shader_op = "reload"
    /\ shader_ret = "True"
    /\ prev_install.kind = "user"
    /\ mesh_shader.program.kind = "user"
    /\ mesh_shader.program.vert = "a"
    /\ mesh_shader.program.frag = "a"
    /\ mesh_shader.program.id > 1

\* ------------------------------------------------------------------ claims: vertex arrays
\* C13: bindings are never stale: in every state in which Viewport.render can
\* run, after any sequence of load_shader, update_shader and load_mesh, the
\* viewport's mesh_program is the shader's program, mesh_vao is built for
\* that program from the entries of the current vbo_list the program
\* declares and from the current mesh_ibo, and wire_vao is built for the
\* wire program from the current vbo_list and wire_ibo.
C13_BindingsNeverStale ==
    /\ mesh_program = mesh_shader.program
    /\ mesh_vao.program = mesh_program
    /\ mesh_vao.index_buffer = mesh_ibo
    /\ mesh_vao.content =
          SelectSeq(vbo_list, LAMBDA e : e[3] \in ProgramAttrs(mesh_program))
    /\ wire_vao.program = wire_program
    /\ wire_vao.index_buffer = wire_ibo
    /\ wire_vao.content =
          SelectSeq(vbo_list, LAMBDA e : e[3] \in ProgramAttrs(wire_program))

\* A frame has drawn the second mesh with the error program installed by a
\* reload: the mesh vertex array binds the vertex buffer of that mesh only.
C13_Witness ==
    /\ n_frames > 0
    /\ Len(gl_calls) >= 3
    /\ gl_calls[3].call = "mesh_vao.render"
    /\ mesh_program.kind = "error"
    /\ installed_by = "reload"
    /\ mesh_ibo = 2
    /\ mesh_vao.content = <<<<2, "3f", "in_vert">>>>
    /\ mesh_vao.index_buffer = 2

\* C14: assemble_vao binds to the mesh vertex array exactly the entries of
\* vbo_list whose attribute the mesh program declares, and to the wire vertex
\* array exactly those the wire program declares, each once and each
\* filtered on its own program; with no entry for a declared attribute
\* (before the first mesh) nothing is bound and no error is raised.
C14_ExactBindings ==
    \A vao \in {mesh_vao, wire_vao} :
        /\ \A k \in 1..Len(vbo_list) :
              (\E j \in 1..Len(vao.content) : vao.content[j] = vbo_list[k])
                <=> vbo_list[k][3] \in ProgramAttrs(vao.program)
        /\ \A j \in 1..Len(vao.content) :
              \E k \in 1..Len(vbo_list) : vbo_list[k] = vao.content[j]
        /\ Len(vao.content) =
              Cardinality({k \in 1..Len(vbo_list) :
                              vbo_list[k][3] \in ProgramAttrs(vao.program)})

\* A mesh is loaded with a program that declares both attributes: the mesh
\* vertex array binds the vertex and the normal buffer, the wire vertex
\* array the vertex buffer only.
C14_Witness ==
    /\ Len(vbo_list) = 2
    /\ ProgramAttrs(mesh_program) = {"in_vert", "in_norm"}
    /\ Len(mesh_vao.content) = 2
    /\ Len(wire_vao.content) = 1
    /\ wire_vao.content[1][3] = "in_vert"

\* ------------------------------------------------------------------ claims: the frame
\* C15: no error propagates out of the per-frame path: the update_shader
\* call of a frame returns, whatever became of the shader files, and never
\* raises.
C15_FrameNeverRaises == ~(shader_op = "reload" /\ shader_ret = "raise")

\* C16: Viewport.render uses its own framebuffer as its first call and goes
\* back to the earlier one as its last: the clear and every draw call in
\* between act on the viewport's fbo, and when render returns the stack and
\* the framebuffer in use are what they were on entry.
C16_RenderPushFirstPopLast ==
    [][n_frames' # n_frames
         => /\ Len(gl_calls') >= 3
            /\ gl_calls'[1] = [call |-> "fbo.use", target |-> fbo]
            /\ gl_calls'[2] = [call |-> "fbo.clear", target |-> fbo]
            /\ \A k \in 2..(Len(gl_calls') - 1) :
                  /\ gl_calls'[k].call # "fbo.use"
                  /\ gl_calls'[k].target = fbo
            /\ gl_calls'[Len(gl_calls')] = [call |-> "fbo.use", target |-> active]
            /\ stack' = stack
            /\ active' = active]_vars

\* A frame has drawn the mesh and the wire frame to the viewport's
\* framebuffer and has returned with the window framebuffer in use again.
C16_Witness ==
    /\ n_frames > 0
    /\ Len(gl_calls) = 5
    /\ gl_calls[3] = [call |-> "mesh_vao.render", target |-> fbo]
    /\ gl_calls[4] = [call |-> "wire_vao.render", target |-> fbo]
    /\ gl_calls[5].target = WndFbo
    /\ active = WndFbo
    /\ stack = <<WndFbo>>
    /\ fbo # WndFbo

\* C17: Viewport.render issues the mesh draw if and only if vbo_list is not
\* empty, and the wire frame draw if and only if vbo_list is not empty and
\* draw_wire_frame is set; with no mesh it issues no draw call.
C17_DrawsOnlyLoadedMesh ==
    [][n_frames' # n_frames
         => LET issued == {gl_calls'[k].call : k \in 1..Len(gl_calls')}
            IN /\ ("mesh_vao.render" \in issued) <=> (Len(vbo_list) > 0)
               /\ ("wire_vao.render" \in issued)
                     <=> (Len(vbo_list) > 0 /\ draw_wire_frame)
               /\ Len(vbo_list) = 0
                     => issued \subseteq {"fbo.use", "fbo.clear"}]_vars

\* A frame rendered before any mesh was loaded, with the wire frame switch
\* on, has issued no draw call.
C17_Witness ==
    /\ n_frames > 0
    /\ vbo_list = <<>>
    /\ draw_wire_frame
    /\ Len(gl_calls) = 3
    /\ \A k \in 1..3 : gl_calls[k].call \in {"fbo.use", "fbo.clear"}

\* C18: in each Viewport.render, for the mesh program and for the wire frame
\* program, every uniform among mat_M, mat_V, mat_P, mat_MV, mat_MVP,
\* base_color and wire_color that the program declares is written in that
\* frame, and no uniform the program does not declare is written.
C18_DeclaredUniformsWritten ==
    [][n_frames' # n_frames
         => \A n \in {"mat_M", "mat_V", "mat_P", "mat_MV", "mat_MVP",
                      "base_color", "wire_color"} :
               /\ (<<"mesh", n>> \in uniform_writes')
                     <=> (n \in ProgramUniforms(mesh_program))
               /\ (<<"wire", n>> \in uniform_writes')
                     <=> (n \in ProgramUniforms(wire_program))]_vars

\* ------------------------------------------------------------------ claims: camera
\* C19: camera updates touch only the affected matrix: a change of the
\* camera parameters that leaves rho, theta and phi alone (near, far,
\* orthogonal scale, field of view, mode) leaves view_mat unchanged, and a
\* change that leaves the mode, the clipping planes, the scale and the field
\* of view alone (rho, theta, phi) leaves perspective_mat unchanged.
C19_CameraUpdatesAreSeparate ==
    [][cam_states' # cam_states
         => /\ (/\ cam_states'.rho = cam_states.rho
                /\ cam_states'.theta = cam_states.theta
                /\ cam_states'.phi = cam_states.phi)
               => view_mat' = view_mat
            /\ (/\ cam_states'.cam_mode_idx = cam_states.cam_mode_idx
                /\ cam_states'.cam_near = cam_states.cam_near
                /\ cam_states'.cam_far = cam_states.cam_far
                /\ cam_states'.cam_orth_scale = cam_states.cam_orth_scale
                /\ cam_states'.cam_perspective_fov = cam_states.cam_perspective_fov)
               => perspective_mat' = perspective_mat]_vars

\* The scroll wheel has moved the camera out to the largest distance in
\* perspective mode after a resize: the view matrix follows rho, and the
\* projection is the one computed at the resize.
C19_Witness ==
    /\ cam_op = "zoom"
    /\ CamMode(cam_states) = "PERSPECTIVE"
    /\ cam_states.rho = 20
    /\ view_mat.rho = 20
    /\ aspect = <<2, 1>>
    /\ perspective_mat.aspect = <<2, 1>>
    /\ perspective_mat.extent = cam_states.cam_perspective_fov

\* C20: a viewport resize to (w, h) returns with the render texture, the
\* depth buffer and the framebuffer allocated at (w, h) and aspect equal to
\* w / h; the projection matrix is the old one computed again with the new
\* aspect, and the view matrix has the value it had before.
C20_ResizeRecomputesProjectionOnly ==
    [][size' # size
         => /\ cam_op' = "resize"
            /\ target_size' = size'
            /\ aspect'[1] * size'[2] = aspect'[2] * size'[1]
            /\ perspective_mat' = [perspective_mat EXCEPT !.aspect = aspect']
            /\ view_mat' = view_mat]_vars

\* C21: every render target has positive dimensions: every size that the
\* mesh viewer window hands to Viewport.resize has w >= 1 and h >= 1, the
\* target is allocated at that size, and aspect is a positive quotient.
C21_TargetsArePositive ==
    /\ size # <<0, 0>> => (size[1] >= 1 /\ size[2] >= 1)
    /\ target_size[1] >= 1 /\ target_size[2] >= 1
    /\ aspect[1] > 0 /\ aspect[2] > 0

\* C22: the consumer follows the output texture: in every state the texture
\* of the viewport's current render target is registered with the UI
\* renderer and it is the only viewport texture registered, so the texture
\* replaced by a resize is registered no longer.
C22_CurrentTextureRegistered == registered = {fbo}

\* C23 as stated: after an interactive update of theta or phi the stored
\* angles lie in (-pi, pi]: -pi is excluded and +pi is included (angles in
\* units of pi/4).
C23_AnglesInOpenClosedInterval ==
    cam_op \in {"theta", "phi", "rotate"}
    => /\ -4 < cam_states.theta /\ cam_states.theta <= 4
       /\ -4 < cam_states.phi /\ cam_states.phi <= 4

\* C23 as amended: after an interactive update of theta or phi the stored
\* angles lie in [-pi, pi): the wrap ((x + pi) mod 2 pi) - pi sends +pi to
\* -pi, so -pi is included and +pi is excluded.
C23_AnglesInClosedOpenInterval ==
    cam_op \in {"theta", "phi", "rotate"}
    => /\ -4 <= cam_states.theta /\ cam_states.theta < 4
       /\ -4 <= cam_states.phi /\ cam_states.phi < 4

\* A drag has delivered the angle +pi for theta and it is stored as -pi.
C23_Witness ==
    /\ cam_op \in {"theta", "rotate"}
    /\ cam_states.theta = -4

\* C24: the camera state invariants hold in every reachable state under any
\* sequence of slider, drag and scroll-zoom updates: rho > 0, 0 < near < far,
\* orthogonal scale > 0, and a field of view strictly between 0 and 180
\* degrees (near is in tenths, far in units).
C24_CameraStateInvariants ==
    /\ cam_states.rho > 0
    /\ 0 < cam_states.cam_near
    /\ cam_states.cam_near < 10 * cam_states.cam_far
    /\ cam_states.cam_orth_scale > 0
    /\ 0 < cam_states.cam_perspective_fov
    /\ cam_states.cam_perspective_fov < 180

\* ------------------------------------------------------------------ claims: wire edges
\* C25: for every triangle index array the wire edge array built by
\* Viewport.load_mesh holds, each once, exactly the pairs (min, max) of the
\* pairs (a, b), (b, c), (a, c) of every triangle (a, b, c); for the single
\* triangle (0, 1, 2) these are (0, 1), (1, 2) and (0, 2).
C25_WireEdgesAreCanonicalPairs ==
    wire_op = "built" =>
       LET Lo(x, y) == IF x < y THEN x ELSE y
           Hi(x, y) == IF x < y THEN y ELSE x
           expected ==
               UNION {{<<Lo(t[1], t[2]), Hi(t[1], t[2])>>,
                       <<Lo(t[2], t[3]), Hi(t[2], t[3])>>,
                       <<Lo(t[1], t[3]), Hi(t[1], t[3])>>} :
                         t \in {tri_arr[k] : k \in 1..Len(tri_arr)}}
       IN /\ {wire_arr[k] : k \in 1..Len(wire_arr)} = expected
          /\ Len(wire_arr) = Cardinality(expected)
          /\ tri_arr = <<<<0, 1, 2>>>>
                => {wire_arr[k] : k \in 1..Len(wire_arr)}
                     = {<<0, 1>>, <<1, 2>>, <<0, 2>>}

\* Two triangles over the same three vertices in opposite orientation have
\* been turned into three edges.
C25_Witness ==
    /\ wire_op = "built"
    /\ tri_arr = <<<<0, 1, 2>>, <<2, 1, 0>>>>
    /\ Len(wire_arr) = 3

\* C26: for a mesh with T triangles and any index values the wire edge
\* array has at most 3 T rows, every row (a, b) has a < b strictly, and no
\* row occurs twice.
C26_WireEdgesBoundedStrictDistinct ==
    wire_op = "built" =>
       /\ Len(wire_arr) <= 3 * Len(tri_arr)
       /\ \A k \in 1..Len(wire_arr) : wire_arr[k][1] < wire_arr[k][2]
       /\ \A j, k \in 1..Len(wire_arr) : j # k => wire_arr[j] # wire_arr[k]

\* ------------------------------------------------------------------ claims: status
\* C27: the "Mesh Viewer" status entry published when a load is requested is
\* removed after that load finishes, whether it succeeded or failed: once no
\* load is in flight and no loaded mesh is waiting to be consumed or being
\* consumed, the status table does not show the job.
C27_StatusClearedWhenIdle ==
    (/\ InFlight = {}
     /\ ~loaded
     /\ frame_pc \notin {"rd_vertex_buf", "rd_normal_buf", "rd_index_buf",
                         "rd_index_arr"})
       => \A e \in ObserverValue : e[1] # "Mesh Viewer"

\* C28: after every update_status or finish_status call the observer's value
\* is the complete status table of that moment, and between notifications
\* the observer's value does not change although the publisher's table is
\* mutated in place.
C28_ObserverHoldsFullTableSnapshot ==
    /\ [](status_pc = "idle" => ObserverValue = status_table)
    /\ [][~(status_pc = "notify" /\ status_pc' = "idle")
            => ObserverValue' = ObserverValue]_vars

\* The table was mutated in place after a notification that delivered two
\* entries, and the observer still holds both.
C28_Witness ==
    /\ status_pc = "notify"
    /\ Cardinality(ObserverValue) = 2
    /\ Cardinality(status_table) = 1
    /\ observer_value = "copy"

\* ------------------------------------------------------------------ claims: threads
\* C29: only the render thread issues GPU commands: a step of a load thread
\* (MeshLoader.load) or of a worker process (load_proc) leaves every GPU
\* object as it is, and GPU buffers, programs, vertex arrays and framebuffers
\* change only in a step of the render thread's frame.
C29_OnlyRenderThreadTouchesGpu ==
    [][LET GpuChanged ==
              <<vbo_list, mesh_ibo, wire_ibo, mesh_program, mesh_vao, wire_vao,
                fbo, stack, active, mesh_shader, n_programs, gl_calls>>'
                # <<vbo_list, mesh_ibo, wire_ibo, mesh_program, mesh_vao,
                    wire_vao, fbo, stack, active, mesh_shader, n_programs,
                    gl_calls>>
           LoaderStep ==
              \/ proc' # proc
              \/ pipe' # pipe
              \/ load_result' # load_result
              \/ \E i \in Loads : load_pc[i] # "unstarted" /\ load_pc'[i] # load_pc[i]
       IN /\ LoaderStep => ~GpuChanged
          /\ GpuChanged => frame_pc' # frame_pc]_vars

\* A load thread has run to its end and published a mesh while no GPU buffer
\* of any mesh exists.
C29_Witness ==
    /\ load_pc[1] = "done"
    /\ loaded
    /\ vbo_list = <<>>
    /\ mesh_ibo = 0
    /\ wire_ibo = 0

\* C30: is_loading() is accurate: from the moment the render thread starts a
\* load thread until that MeshLoader.load call has finished, the loading
\* flag is_loading() returns is true; it is false only when no load thread
\* is running.
C30_IsLoadingAccurate == InFlight # {} => loading

\* C31: matrices are never stale at draw time: in every state in which the
\* frame goes on to Viewport.render, view_mat is the view matrix of the
\* current rho, theta and phi, and perspective_mat is the projection of the
\* current mode, clipping planes, scale or field of view and the viewport's
\* current aspect, after any sequence of camera updates, zooms and resizes.
C31_MatricesNeverStale ==
    cam_op # "raise" =>
       /\ view_mat = [rho |-> cam_states.rho, theta |-> cam_states.theta,
                      phi |-> cam_states.phi]
       /\ perspective_mat.kind =
             IF cam_states.cam_mode_idx = 0 THEN "ORTHOGONAL" ELSE "PERSPECTIVE"
       /\ perspective_mat.extent =
             IF cam_states.cam_mode_idx = 0
               THEN cam_states.cam_orth_scale
               ELSE cam_states.cam_perspective_fov
       /\ perspective_mat.aspect = aspect
       /\ perspective_mat.near = cam_states.cam_near
       /\ perspective_mat.far = cam_states.cam_far

\* The far plane was moved in orthogonal mode after a resize to 2 x 1 and a
\* zoom: the projection carries the new far plane, the new aspect and the
\* scale, and the view matrix the distance.
C31_Witness ==
    /\ cam_op = "far"
    /\ CamMode(cam_states) = "ORTHOGONAL"
    /\ cam_states.cam_far = 50
    /\ perspective_mat.far = 50
    /\ aspect = <<2, 1>>
    /\ perspective_mat.aspect = <<2, 1>>
    /\ cam_states.cam_orth_scale = 20
    /\ perspective_mat.extent = 20
    /\ cam_states.rho = 20
    /\ view_mat.rho = 20

\* ------------------------------------------------------------------ claims: shader switch
\* C32: a failed shader switch leaves the viewport unchanged: a
\* Viewport.load_shader call made while a shader file is missing, is not a
\* file or cannot be read leaves mesh_shader, mesh_program and mesh_vao with
\* the values they had before the call.
C32_FailedSwitchKeepsShader ==
    [][(shader_op' = "init"
          /\ (vert_file.status # "ok" \/ frag_file.status # "ok"))
         => /\ mesh_shader' = mesh_shader
            /\ mesh_program' = mesh_program
            /\ mesh_vao' = mesh_vao]_vars

\* load_shader has raised on a missing fragment file while the program
\* installed by an earlier reload is the viewport's program.
C32_Witness ==
    /\ shader_op = "init"
    /\ shader_ret = "raise"
    /\ vert_file.status = "ok"
    /\ frag_file.status = "missing"
    /\ installed_by = "reload"
    /\ mesh_program = mesh_shader.program
    /\ mesh_program.id = 2
    /\ mesh_vao = MeshVao(mesh_program, vbo_list, mesh_ibo)

\* ------------------------------------------------------------------ claims: window registry
\* C33: window removal is deferred and safe: a key leaves App.windows only
\* when the removal queue is processed after all windows have rendered, the
\* processing deletes exactly the requested keys, each once, and neither the
\* requests nor the processing raise, for any combination of menu toggles
\* and close events in one frame.
C33_RemovalDeferredAndSafe ==
    /\ [](app_pc \notin {"raise_add", "raise_remove", "raise_del"})
    /\ [][/\ (Keys(windows) \ Keys(windows') # {}) => app_pc = "remove"
          /\ app_pc = "remove"
               => /\ Keys(windows') = Keys(windows) \ Keys(windows_remove_queue)
                  /\ Len(windows') = Len(windows) - Len(windows_remove_queue)]_vars

\* C34: at every frame boundary each menu flag is true exactly when the key
\* of its window is in App.windows, after any sequence of menu toggles and
\* window close events, and add_window is never called for a key that is
\* already present.
C34_FlagsAgreeWithRegistry ==
    /\ app_pc = "dockspace" => \A k \in WindowKeys : show[k] <=> k \in Keys(windows)
    /\ app_pc # "raise_add"

\* A frame boundary after the mesh viewer was closed and opened again behind
\* the settings window, with the about window closed.
C34_Witness ==
    /\ app_pc = "dockspace"
    /\ windows = <<"settings", "mesh_viewer">>
    /\ show["settings"] /\ show["mesh_viewer"] /\ ~show["about"]
    /\ windows_remove_queue = <<"about">>

\* ------------------------------------------------------------------ claims: settings
\* C35: "Reset to Default" always yields unsaved settings in which every
\* field has its declared default value, whatever edits, resets and saves
\* came before, and a new Settings() holds the declared values as well.
C35_ResetYieldsDeclaredDefaults ==
    /\ settings_op = "reset"
         => (IF unsaved_ref = "default" THEN default_fields ELSE unsaved_own)
              = [show_fps_counter |-> FALSE, int_slider_field |-> 0]
    /\ default_fields = [show_fps_counter |-> FALSE, int_slider_field |-> 0]

====
